---- MODULE Spec2Model ----
(***************************************************************************)
(* A model of server.py: the Flask request handlers (one thread per        *)
(* request, interleaving at their database operations), the discord.py     *)
(* event loop (coroutines interleaving at their await points), and the     *)
(* state they share: the three MongoDB collections, message_cache and      *)
(* webhooks_cache.                                                         *)
(*                                                                         *)
(* Time is time.time() in whole seconds.  A handler step reads the clock   *)
(* once; the successive time.time() calls of one statement group (for      *)
(* example the three of create_session) are taken at the same instant.     *)
(***************************************************************************)
EXTENDS Integers, Sequences, FiniteSets, TLC

VARIABLES
    now,                \* time.time()
    ticks,              \* number of clock advances so far (bounds the run)
    users,              \* users_collection: set of documents
    sessions,           \* sessions_collection: set of documents
    verification_codes, \* verification_codes collection: set of documents
    nextId,             \* next MongoDB _id of each collection that needs one
    verified,           \* history: the (email, code) pairs a verify has succeeded with
    resends,            \* number of resend requests that found a pending verification
    nextToken,          \* next value generate_token() returns
    threads,            \* Flask request threads: slot -> handler position and locals
    response,           \* the HTTP response the last step sent, if it sent one
    message_cache,      \* dict channel_id -> deque(maxlen=MAX_CACHED_MESSAGES)
    handlers,           \* on_message coroutines suspended at the avatar fetch
    nextMsg,            \* next platform message id (ids follow delivery order)
    appended,           \* history: channel_id -> every record appended, in append order
    last_message_time,  \* bot_status['last_message_time'], <<>> for None
    webhooks_cache,     \* dict channel.id -> webhook
    platform,           \* the platform's webhooks of each channel, in listing order
    createRequests,     \* history: channel -> number of channel.create_webhook calls issued
    tasks               \* send_webhook_message coroutines on bot.loop: id -> position and locals

authVars  == <<users, sessions, verification_codes, nextId, nextToken, verified, resends>>
cacheVars == <<message_cache, handlers, nextMsg, appended, last_message_time>>
sinkVars  == <<webhooks_cache, platform, createRequests, tasks>>
clockVars == <<now, ticks>>
vars      == <<now, ticks, users, sessions, verification_codes, nextId, nextToken,
               verified, resends,
               threads, response, message_cache, handlers, nextMsg, appended,
               last_message_time, webhooks_cache, platform, createRequests, tasks>>

----------------------------------------------------------------------------
(* Bounds of the model *)

MaxThreads == 2     \* concurrent Flask request threads
MaxTicks   == 1     \* clock advances in one run
MaxTasks   == 2     \* send tasks scheduled on the event loop in one run
MaxMsgs    == 2     \* inbound message events delivered in one run
MaxTokens  == 2     \* sessions created in one run
MaxRegs    == 2     \* pending verifications stored in one run
MaxResends == 1     \* resend requests that find a pending verification, in one run

(* Program constants *)

MAX_CACHED_MESSAGES == 50
SESSION_TTL      == 24 * 60 * 60
VERIFY_TTL       == 15 * 60
DISPATCH_TIMEOUT == 10
DEFAULT_LIMIT    == 10

Threads  == 1..MaxThreads
Channels == {"c1", "c2"}      \* channels bot.get_channel knows
NoChannel == "c0"             \* a channel id bot.get_channel does not know
NoAuth   == 0                 \* no Authorization header, or one not starting 'Bearer '

Min(a, b) == IF a <= b THEN a ELSE b

----------------------------------------------------------------------------
(* Python and MongoDB primitives *)

\* seq[start:] with Python's index rules: a negative start counts from the
\* end, and both directions clamp to the sequence.
PySliceFrom(seq, start) ==
    LET n    == Len(seq)
        from == IF start < 0
                  THEN (IF n + start < 0 THEN 0 ELSE n + start)
                  ELSE (IF start > n THEN n ELSE start)
    IN  SubSeq(seq, from + 1, n)

\* a deque that was given no maxlen: nothing is ever discarded
DequeAppend_unbounded(dq, x, cap) == Append(dq, x)

\* a deque that makes room at the wrong end: the newest item is discarded
DequeAppend_dropsNewest(dq, x, cap) ==
    IF Len(dq) >= cap THEN Append(SubSeq(dq, 1, Len(dq) - 1), x) ELSE Append(dq, x)

\* deque(maxlen=cap).append(x): at capacity the leftmost item is discarded.
DequeAppend(dq, x, cap) ==
    IF Len(dq) >= cap THEN Append(Tail(dq), x) ELSE Append(dq, x)

\* hashlib.sha256(password).hexdigest(), taken to be collision free.
hash_password(password) == <<"sha256", password>>

Idle == [op |-> "idle", pc |-> "idle"]
NoResponse == [op |-> "none", status |-> 0, error |-> "", extra |-> <<>>]

\* a step that answers no request
NoAnswer == response' = NoResponse

\* A request is handled by the first thread that is free.
Free(i) ==
    /\ threads[i].pc = "idle"
    /\ \A j \in 1..(i - 1) : threads[j].pc # "idle"

\* return jsonify(body), status: the handler running on thread i ends.
\* error is the body's 'error' field ("" when absent), extra the rest of it.
Respond(i, op, status, error, extra) ==
    /\ threads' = [threads EXCEPT ![i] = Idle]
    /\ response' = [op |-> op, status |-> status, error |-> error, extra |-> extra]

\* the handler running on thread i goes on, with position and locals rec
Goto(i, rec) ==
    /\ threads' = [threads EXCEPT ![i] = rec]
    /\ NoAnswer

----------------------------------------------------------------------------
(* verify_user_token and create_session *)

\* lines 381-389: the header check and sessions_collection.find_one
FindSession(auth) ==
    IF auth = NoAuth THEN {} ELSE {s \in sessions : s.token = auth}

\* an expiry test that already refuses at the instant of expiry
SessionExpired_atExpiry(session) == now >= session.expiry

\* lines 391-402 on the session found: delete_one when expired, else update_one
SessionExpired(session) == now > session.expiry

\* a delete that removes every session of the token's user
DeleteSession_ofUser(token) ==
    {s \in sessions :
        \A o \in sessions : o.token = token => s.username # o.username}

\* sessions_collection.delete_one({'token': token}); tokens are unique
DeleteSession(token) == sessions \ {s \in sessions : s.token = token}

\* an access that also renews the session (sliding expiration)
TouchSession_sliding(token) ==
    {IF s.token = token
       THEN [s EXCEPT !.last_used = now, !.expiry = now + SESSION_TTL]
       ELSE s : s \in sessions}

TouchSession(token) ==
    {IF s.token = token THEN [s EXCEPT !.last_used = now] ELSE s : s \in sessions}

\* create_session(username): the new document; the caller inserts it
NewSession(username) ==
    [token |-> nextToken, username |-> username, expiry |-> now + SESSION_TTL,
     created_at |-> now, last_used |-> now]

\* a verify_user_token that trusts any bearer token without looking it up
StartProtected_anyBearer(i, op, auth) ==
    /\ Free(i)
    /\ IF auth = NoAuth
         THEN Respond(i, op, 401, "Unauthorized", <<>>)
         ELSE Goto(i, [op |-> op, pc |-> "body", token |-> auth,
                       session |-> [token |-> auth]])

\* A protected handler's first lines, `session = verify_user_token(request)`
\* up to find_one (lines 381-389): no usable header or no session document
\* answers 401; otherwise the handler holds the document it found.
StartProtected(i, op, auth) ==
    /\ Free(i)
    /\ IF FindSession(auth) = {}
         THEN Respond(i, op, 401, "Unauthorized", <<>>)
         ELSE \E s \in FindSession(auth) :
                Goto(i, [op |-> op, pc |-> "auth", token |-> auth, session |-> s])

\* a rejection of an expired session that leaves its record in the store
AuthCheck_keepsExpired(i) ==
    /\ threads[i].pc = "auth"
    /\ IF SessionExpired(threads[i].session)
         THEN /\ sessions' = sessions
              /\ Respond(i, threads[i].op, 401, "Unauthorized", <<>>)
         ELSE /\ sessions' = TouchSession(threads[i].token)
              /\ Goto(i, [threads[i] EXCEPT !.pc = "body"])
    /\ UNCHANGED <<users, verification_codes, nextId, nextToken, verified, resends>>
    /\ UNCHANGED <<clockVars, cacheVars, sinkVars>>

\* The rest of verify_user_token (lines 391-402) and the caller's
\* `if not session` test: an expired session is deleted and the request
\* answered 401, otherwise last_used is set and the handler goes on.
AuthCheck(i) ==
    /\ threads[i].pc = "auth"
    /\ IF SessionExpired(threads[i].session)
         THEN /\ sessions' = DeleteSession(threads[i].token)
              /\ Respond(i, threads[i].op, 401, "Unauthorized", <<>>)
         ELSE /\ sessions' = TouchSession(threads[i].token)
              /\ Goto(i, [threads[i] EXCEPT !.pc = "body"])
    /\ UNCHANGED <<users, verification_codes, nextId, nextToken, verified, resends>>
    /\ UNCHANGED <<clockVars, cacheVars, sinkVars>>

\* The clock advances by d seconds.
Tick(d) ==
    /\ ticks < MaxTicks
    /\ now' = now + d
    /\ ticks' = ticks + 1
    /\ UNCHANGED <<authVars, threads, cacheVars, sinkVars>>
    /\ NoAnswer

----------------------------------------------------------------------------
(* Registration, verification, login and logout *)

Emails    == {"e1", "e2"}
Usernames == {"u1", "u2"}
Passwords == {"p1", "p2"}
Codes     == {"000001", "000002"}    \* what generate_verification_code may return

\* the threads running one of the handlers ops
Running(ops) == {j \in Threads : threads[j].op \in ops}

\* the requests in flight that will each store a pending verification, and
\* those that will each create a session, are counted against the bounds
MayRegister == nextId.verification + Cardinality(Running({"register"})) <= MaxRegs
MaySession  == nextToken + Cardinality(Running({"verify", "login"})) <= MaxTokens

\* a test for an existing user that looks at the email only
ExistingUsers_emailOnly(email, username) == {u \in users : u.email = email}

\* line 807: users_collection.find_one({'$or': [{email}, {username}]})
ExistingUsers(email, username) ==
    {u \in users : u.email = email \/ u.username = username}

\* register_user, lines 790-813: validation, the test for an existing user,
\* and the code drawn for the new pending verification
StartRegister(i, email, username, password, wellFormed, code) ==
    /\ Free(i)
    /\ MayRegister
    /\ IF ~wellFormed
         THEN Respond(i, "register", 400, "All fields required", <<>>)
         ELSE IF ExistingUsers(email, username) # {}
           THEN Respond(i, "register", 400, "Email or username already exists", <<>>)
           ELSE Goto(i, [op |-> "register", pc |-> "reg_delete", email |-> email,
                         username |-> username, password |-> password,
                         code |-> code])
    /\ UNCHANGED <<clockVars, authVars, cacheVars, sinkVars>>

\* line 817: verification_codes.delete_many({'email': email})
RegisterDelete(i) ==
    /\ threads[i].pc = "reg_delete"
    /\ verification_codes' =
          {v \in verification_codes : v.email # threads[i].email}
    /\ Goto(i, [threads[i] EXCEPT !.pc = "reg_insert"])
    /\ UNCHANGED <<users, sessions, nextId, nextToken, verified, resends>>
    /\ UNCHANGED <<clockVars, cacheVars, sinkVars>>

\* the pending verification document of lines 818-825
PendingDoc(t) ==
    [id |-> nextId.verification, email |-> t.email, username |-> t.username,
     password_hash |-> hash_password(t.password), code |-> t.code,
     created_at |-> now, expires_at |-> now + VERIFY_TTL]

\* a register that takes its pending verification back when the email
\* could not be delivered
RegisterInsert_rollsBack(i, sent) ==
    /\ threads[i].pc = "reg_insert"
    /\ verification_codes' =
          IF sent THEN verification_codes \cup {PendingDoc(threads[i])}
                  ELSE verification_codes
    /\ nextId' = [nextId EXCEPT !.verification = @ + 1]
    /\ IF sent
         THEN Respond(i, "register", 200, "", <<>>)
         ELSE Respond(i, "register", 500, "Failed to send verification email", <<>>)
    /\ UNCHANGED <<users, sessions, nextToken, verified, resends>>
    /\ UNCHANGED <<clockVars, cacheVars, sinkVars>>

\* lines 818-835: insert_one, then send_verification_email and the answer
RegisterInsert(i, sent) ==
    /\ threads[i].pc = "reg_insert"
    /\ verification_codes' = verification_codes \cup {PendingDoc(threads[i])}
    /\ nextId' = [nextId EXCEPT !.verification = @ + 1]
    /\ IF sent
         THEN Respond(i, "register", 200, "", <<>>)
         ELSE Respond(i, "register", 500, "Failed to send verification email", <<>>)
    /\ UNCHANGED <<users, sessions, nextToken, verified, resends>>
    /\ UNCHANGED <<clockVars, cacheVars, sinkVars>>

\* line 854: verification_codes.find_one({'email': email, 'code': code})
FindVerification(email, code) ==
    {v \in verification_codes : v.email = email /\ v.code = code}

\* verify_email, lines 846-857.  late records whether a verify with this
\* (email, code) had already succeeded when the request arrived.
StartVerify(i, email, code, wellFormed) ==
    /\ Free(i)
    /\ MaySession
    /\ LET late == <<email, code>> \in verified IN
         IF ~wellFormed
           THEN Respond(i, "verify", 400, "Email and code required",
                        [late |-> FALSE])
           ELSE IF FindVerification(email, code) = {}
             THEN Respond(i, "verify", 401, "Invalid verification code",
                          [late |-> late])
             ELSE \E v \in FindVerification(email, code) :
                    Goto(i, [op |-> "verify", pc |-> "ver_check", email |-> email,
                             code |-> code, verification |-> v, late |-> late])
    /\ UNCHANGED <<clockVars, authVars, cacheVars, sinkVars>>

\* an expiry test that already refuses at the instant of expiry
VerificationExpired_atExpiry(verification) == now >= verification.expires_at

\* line 860 on the document found
VerificationExpired(verification) == now > verification.expires_at

\* the user document of lines 865-871
UserDoc(t) ==
    [id |-> nextId.user, email |-> t.email,
     username |-> t.verification.username,
     password_hash |-> t.verification.password_hash, created_at |-> now,
     verified |-> TRUE]

\* lines 859-871: an expired code is deleted and refused, else the user
\* account is inserted
VerifyCheck(i) ==
    /\ threads[i].pc = "ver_check"
    /\ IF VerificationExpired(threads[i].verification)
         THEN /\ verification_codes' =
                   {v \in verification_codes : v.id # threads[i].verification.id}
              /\ Respond(i, "verify", 401, "Verification code expired",
                         [late |-> threads[i].late])
              /\ UNCHANGED <<users, nextId>>
         ELSE /\ users' = users \cup {UserDoc(threads[i])}
              /\ nextId' = [nextId EXCEPT !.user = @ + 1]
              /\ Goto(i, [threads[i] EXCEPT !.pc = "ver_delete"])
              /\ UNCHANGED verification_codes
    /\ UNCHANGED <<sessions, nextToken, verified, resends>>
    /\ UNCHANGED <<clockVars, cacheVars, sinkVars>>

\* line 874: verification_codes.delete_one({'_id': verification['_id']})
VerifyDelete(i) ==
    /\ threads[i].pc = "ver_delete"
    /\ verification_codes' =
          {v \in verification_codes : v.id # threads[i].verification.id}
    /\ Goto(i, [threads[i] EXCEPT !.pc = "ver_session"])
    /\ UNCHANGED <<users, sessions, nextId, nextToken, verified, resends>>
    /\ UNCHANGED <<clockVars, cacheVars, sinkVars>>

\* lines 876-884: create_session and the answer
VerifySession(i) ==
    /\ threads[i].pc = "ver_session"
    /\ sessions' = sessions \cup {NewSession(threads[i].verification.username)}
    /\ nextToken' = nextToken + 1
    /\ verified' = verified \cup {<<threads[i].email, threads[i].code>>}
    /\ Respond(i, "verify", 200, "",
               [late |-> threads[i].late, token |-> nextToken])
    /\ UNCHANGED <<users, verification_codes, nextId, resends>>
    /\ UNCHANGED <<clockVars, cacheVars, sinkVars>>

\* resend_code, lines 889-897
StartResend(i, email, code) ==
    /\ Free(i)
    /\ IF {v \in verification_codes : v.email = email} = {}
         THEN /\ Respond(i, "resend", 404, "No pending verification found", <<>>)
              /\ UNCHANGED resends
         ELSE /\ resends < MaxResends
              /\ resends' = resends + 1
              /\ Goto(i, [op |-> "resend", pc |-> "resend_update", email |-> email,
                          code |-> code])
    /\ UNCHANGED <<users, sessions, verification_codes, nextId, nextToken, verified>>
    /\ UNCHANGED <<clockVars, cacheVars, sinkVars>>

\* lines 899-906: update_one changes one document of the email, if any is left
ResendUpdated(email, code) ==
    LET match == {v \in verification_codes : v.email = email} IN
    IF match = {} THEN {verification_codes}
    ELSE {(verification_codes \ {v}) \cup
            {[v EXCEPT !.code = code, !.created_at = now,
                       !.expires_at = now + VERIFY_TTL]} : v \in match}

\* lines 899-911: update_one, then send_verification_email and the answer
ResendUpdate(i, sent) ==
    /\ threads[i].pc = "resend_update"
    /\ verification_codes' \in ResendUpdated(threads[i].email, threads[i].code)
    /\ IF sent
         THEN Respond(i, "resend", 200, "", <<>>)
         ELSE Respond(i, "resend", 500, "Failed to send email", <<>>)
    /\ UNCHANGED <<users, sessions, nextId, nextToken, verified, resends>>
    /\ UNCHANGED <<clockVars, cacheVars, sinkVars>>

\* lines 924-931: the users a login may find, and the credential test
LoginUsers(name) == {u \in users : u.username = name \/ u.email = name}
PasswordOk(user, password) == user.password_hash = hash_password(password)

\* a login that tells an unknown name from a wrong password
StartLogin_enumerates(i, name, password, wellFormed) ==
    /\ Free(i)
    /\ MaySession
    /\ IF ~wellFormed
         THEN Respond(i, "login", 400, "Username/email and password required", <<>>)
         ELSE IF LoginUsers(name) = {}
           THEN Respond(i, "login", 404, "User not found", <<>>)
           ELSE \E u \in LoginUsers(name) :
                  IF ~PasswordOk(u, password)
                    THEN Respond(i, "login", 401, "Invalid credentials", <<>>)
                    ELSE Goto(i, [op |-> "login", pc |-> "login_session",
                                  username |-> u.username])
    /\ UNCHANGED <<clockVars, authVars, cacheVars, sinkVars>>

\* login_user, lines 916-932
StartLogin(i, name, password, wellFormed) ==
    /\ Free(i)
    /\ MaySession
    /\ IF ~wellFormed
         THEN Respond(i, "login", 400, "Username/email and password required", <<>>)
         ELSE IF LoginUsers(name) = {}
           THEN Respond(i, "login", 401, "Invalid credentials", <<>>)
           ELSE \E u \in LoginUsers(name) :
                  IF ~PasswordOk(u, password)
                    THEN Respond(i, "login", 401, "Invalid credentials", <<>>)
                    ELSE Goto(i, [op |-> "login", pc |-> "login_session",
                                  username |-> u.username])
    /\ UNCHANGED <<clockVars, authVars, cacheVars, sinkVars>>

\* lines 934-942: create_session and the answer
LoginSession(i) ==
    /\ threads[i].pc = "login_session"
    /\ sessions' = sessions \cup {NewSession(threads[i].username)}
    /\ nextToken' = nextToken + 1
    /\ Respond(i, "login", 200, "", [token |-> nextToken])
    /\ UNCHANGED <<users, verification_codes, nextId, verified, resends>>
    /\ UNCHANGED <<clockVars, cacheVars, sinkVars>>

\* logout_user, lines 947-949, and discord_status, lines 1000-1002
StartLogout(i, auth) ==
    /\ StartProtected(i, "logout", auth)
    /\ UNCHANGED <<clockVars, authVars, cacheVars, sinkVars>>

StartStatus(i, auth) ==
    /\ StartProtected(i, "discord_status", auth)
    /\ UNCHANGED <<clockVars, authVars, cacheVars, sinkVars>>

\* a logout that answers without deleting the session
LogoutBody_keepsSession(i) ==
    /\ threads[i].pc = "body"
    /\ threads[i].op = "logout"
    /\ Respond(i, "logout", 200, "", <<>>)
    /\ UNCHANGED <<clockVars, authVars, cacheVars, sinkVars>>

\* logout_user, lines 951-954
LogoutBody(i) ==
    /\ threads[i].pc = "body"
    /\ threads[i].op = "logout"
    /\ sessions' = DeleteSession(threads[i].token)
    /\ Respond(i, "logout", 200, "", <<>>)
    /\ UNCHANGED <<users, verification_codes, nextId, nextToken, verified, resends>>
    /\ UNCHANGED <<clockVars, cacheVars, sinkVars>>

\* discord_status, lines 1004-1006
StatusBody(i) ==
    /\ threads[i].pc = "body"
    /\ threads[i].op = "discord_status"
    /\ Respond(i, "discord_status", 200, "", <<>>)
    /\ UNCHANGED <<clockVars, authVars, cacheVars, sinkVars>>

\* get_guilds, lines 1011-1013, and get_channels, lines 1029-1031
StartGuilds(i, auth) ==
    /\ StartProtected(i, "get_guilds", auth)
    /\ UNCHANGED <<clockVars, authVars, cacheVars, sinkVars>>

StartChannels(i, auth) ==
    /\ StartProtected(i, "get_channels", auth)
    /\ UNCHANGED <<clockVars, authVars, cacheVars, sinkVars>>

\* get_guilds, lines 1015-1024
GuildsBody(i) ==
    /\ threads[i].pc = "body"
    /\ threads[i].op = "get_guilds"
    /\ Respond(i, "get_guilds", 200, "", <<>>)
    /\ UNCHANGED <<clockVars, authVars, cacheVars, sinkVars>>

\* get_channels, lines 1033-1047: bot.get_guild finds the guild or not
ChannelsBody(i, found) ==
    /\ threads[i].pc = "body"
    /\ threads[i].op = "get_channels"
    /\ IF found THEN Respond(i, "get_channels", 200, "", <<>>)
                ELSE Respond(i, "get_channels", 404, "Guild not found", <<>>)
    /\ UNCHANGED <<clockVars, authVars, cacheVars, sinkVars>>

\* The quick code of a user record.  The specification stores a 6-digit
\* quick code on every user record; verify_email (lines 865-871) writes no
\* such field, so the value is the specification's.
QuickCode(user) == "000001"

\* GET /api/discord/status?code=<code> with no Authorization header:
\* verify_user_token reads req.headers only, finds no header and returns
\* None (lines 381-383), whatever the query string holds; the handler
\* answers 401 (lines 1000-1002).  The answer is recorded with the code the
\* request carried.
StartStatusWithCode(i, code) ==
    /\ Free(i)
    /\ Respond(i, "discord_status", 401, "Unauthorized", <<code>>)
    /\ UNCHANGED <<clockVars, authVars, cacheVars, sinkVars>>

----------------------------------------------------------------------------
(* The outbound path: send_message, send_webhook_message, get_or_create_webhook *)

AuthInputs   == 0..MaxTokens          \* NoAuth or a bearer token
SendChannels == Channels \cup {NoChannel}

\* A webhook the platform holds: the n-th one created by the bridge in that
\* channel, or (n = 0) one that existed before the process started.
Webhook(c, n, user) == [channel |-> c, n |-> n, user |-> user]
BotUser == "bot"                      \* bot.user

\* a search that takes the first webhook of the listing, whoever owns it
FirstOwn_firstListed(webhooks) ==
    IF webhooks = <<>> THEN <<>> ELSE <<Head(webhooks)>>

\* lines 441-444: the first webhook of the listing owned by bot.user, as a
\* sequence of at most one element (empty: `webhook` stays None)
FirstOwn(webhooks) ==
    LET own == SelectSeq(webhooks, LAMBDA wh : wh.user = BotUser)
    IN  IF own = <<>> THEN <<>> ELSE <<Head(own)>>

\* lines 435-436: the cache test that opens get_or_create_webhook
Cached(c) == c \in DOMAIN webhooks_cache

\* line 449: webhooks_cache[channel.id] = webhook
CachePut(c, wh) ==
    [k \in DOMAIN webhooks_cache \cup {c} |-> IF k = c THEN wh ELSE webhooks_cache[k]]

\* the webhook channel.create_webhook returns: a new one, owned by bot.user
Created(c) ==
    Webhook(c, Len(SelectSeq(platform[c], LAMBDA wh : wh.n > 0)) + 1, BotUser)

TaskDone(t, error) == [tasks EXCEPT ![t].pc = "done", ![t].error = error]

\* send_message, lines 1068-1070
StartSend(i, auth) ==
    /\ StartProtected(i, "send_message", auth)
    /\ UNCHANGED <<clockVars, authVars, cacheVars, sinkVars>>

\* send_message, lines 1072-1083: the content test, then
\* asyncio.run_coroutine_threadsafe puts the coroutine on bot.loop and
\* future.result(timeout=10) starts to wait
SendBody(i, channel, hasContent) ==
    /\ threads[i].pc = "body"
    /\ threads[i].op = "send_message"
    /\ IF ~hasContent
         THEN /\ Respond(i, "send_message", 400, "Content required", <<>>)
              /\ UNCHANGED tasks
         ELSE /\ Len(tasks) < MaxTasks
              /\ tasks' = Append(tasks,
                    [channel |-> channel, pc |-> "queued", webhook |-> <<>>,
                     error |-> "", caller |-> "waiting"])
              /\ Goto(i, [op |-> "send_message", pc |-> "wait",
                           task |-> Len(tasks) + 1,
                           deadline |-> now + DISPATCH_TIMEOUT])
    /\ UNCHANGED <<clockVars, authVars, cacheVars, webhooks_cache, platform,
                   createRequests>>

\* lines 1086-1087: the future is done, the handler answers jsonify(result)
SendReturn(i) ==
    /\ threads[i].pc = "wait"
    /\ tasks[threads[i].task].pc = "done"
    /\ Respond(i, "send_message", 200, tasks[threads[i].task].error,
               <<threads[i].task>>)
    /\ tasks' = [tasks EXCEPT ![threads[i].task].caller = "answered"]
    /\ UNCHANGED <<clockVars, authVars, cacheVars, webhooks_cache, platform,
                   createRequests>>

\* a wait that gives up by cancelling the coroutine it scheduled
SendTimeout_cancels(i) ==
    /\ threads[i].pc = "wait"
    /\ tasks[threads[i].task].pc # "done"
    /\ now >= threads[i].deadline
    /\ Respond(i, "send_message", 500, "", <<threads[i].task>>)
    /\ tasks' = [tasks EXCEPT ![threads[i].task].caller = "timeout",
                              ![threads[i].task].pc = "done",
                              ![threads[i].task].error = "cancelled"]
    /\ UNCHANGED <<clockVars, authVars, cacheVars, webhooks_cache, platform,
                   createRequests>>

\* future.result() given no timeout: the wait ends only with the task
SendTimeout_waitsForever(i) ==
    /\ threads[i].pc = "wait"
    /\ FALSE
    /\ UNCHANGED vars

\* lines 1088-1089: future.result raises TimeoutError after 10 seconds and
\* the handler answers 500 with str(e), which is empty; nothing is done to
\* the coroutine, which stays on the loop.  (caller is history: what became
\* of the request that scheduled the task.)
SendTimeout(i) ==
    /\ threads[i].pc = "wait"
    /\ tasks[threads[i].task].pc # "done"
    /\ now >= threads[i].deadline
    /\ Respond(i, "send_message", 500, "", <<threads[i].task>>)
    /\ tasks' = [tasks EXCEPT ![threads[i].task].caller = "timeout"]
    /\ UNCHANGED <<clockVars, authVars, cacheVars, webhooks_cache, platform,
                   createRequests>>

\* The 10 seconds of a pending future.result(timeout=10) run out.
TimeoutElapses(i) ==
    /\ threads[i].pc = "wait"
    /\ now < threads[i].deadline
    /\ now' = threads[i].deadline
    /\ UNCHANGED <<ticks, authVars, threads, cacheVars, sinkVars>>
    /\ NoAnswer

\* send_webhook_message starts on the loop (tasks start in the order they
\* were scheduled): lines 1094-1098 and get_or_create_webhook, lines 435-438,
\* up to its first await
TaskStart(t) ==
    /\ t \in DOMAIN tasks
    /\ tasks[t].pc = "queued"
    /\ \A u \in 1..(t - 1) : tasks[u].pc # "queued"
    /\ LET c == tasks[t].channel IN
         tasks' = IF c \notin Channels THEN TaskDone(t, "Channel not found")
                  ELSE IF Cached(c)
                    THEN [tasks EXCEPT ![t].pc = "send",
                                       ![t].webhook = <<webhooks_cache[c]>>]
                    ELSE [tasks EXCEPT ![t].pc = "list"]
    /\ UNCHANGED <<clockVars, authVars, threads, cacheVars, webhooks_cache,
                   platform, createRequests>>
    /\ NoAnswer

\* `await channel.webhooks()` returns (or raises): lines 438-447, and lines
\* 449-450 when an owned webhook is in the listing
TaskListed(t, ok) ==
    /\ t \in DOMAIN tasks
    /\ tasks[t].pc = "list"
    /\ LET c   == tasks[t].channel
           own == FirstOwn(platform[c])
       IN  IF ~ok
             THEN /\ tasks' = TaskDone(t, "webhooks failed")
                  /\ UNCHANGED <<webhooks_cache, createRequests>>
             ELSE IF own # <<>>
               THEN /\ webhooks_cache' = CachePut(c, own[1])
                    /\ tasks' = [tasks EXCEPT ![t].pc = "send", ![t].webhook = own]
                    /\ UNCHANGED createRequests
               ELSE /\ createRequests' = [createRequests EXCEPT ![c] = @ + 1]
                    /\ tasks' = [tasks EXCEPT ![t].pc = "create"]
                    /\ UNCHANGED webhooks_cache
    /\ UNCHANGED <<clockVars, authVars, threads, cacheVars, platform>>
    /\ NoAnswer

\* a resolution that remembers its failure: a failed creation leaves a
\* placeholder in the cache
TaskCreated_cachesFailure(t, ok) ==
    /\ t \in DOMAIN tasks
    /\ tasks[t].pc = "create"
    /\ LET c == tasks[t].channel IN
         IF ~ok
           THEN /\ tasks' = TaskDone(t, "create_webhook failed")
                /\ webhooks_cache' = CachePut(c, Webhook(c, 0, "none"))
                /\ UNCHANGED platform
           ELSE /\ platform' = [platform EXCEPT ![c] = Append(@, Created(c))]
                /\ webhooks_cache' = CachePut(c, Created(c))
                /\ tasks' = [tasks EXCEPT ![t].pc = "send",
                                          ![t].webhook = <<Created(c)>>]
    /\ UNCHANGED <<clockVars, authVars, threads, cacheVars, createRequests>>
    /\ NoAnswer

\* `await channel.create_webhook(...)` returns (or raises): lines 447-450
TaskCreated(t, ok) ==
    /\ t \in DOMAIN tasks
    /\ tasks[t].pc = "create"
    /\ LET c == tasks[t].channel IN
         IF ~ok
           THEN /\ tasks' = TaskDone(t, "create_webhook failed")
                /\ UNCHANGED <<webhooks_cache, platform>>
           ELSE /\ platform' = [platform EXCEPT ![c] = Append(@, Created(c))]
                /\ webhooks_cache' = CachePut(c, Created(c))
                /\ tasks' = [tasks EXCEPT ![t].pc = "send",
                                          ![t].webhook = <<Created(c)>>]
    /\ UNCHANGED <<clockVars, authVars, threads, cacheVars, createRequests>>
    /\ NoAnswer

\* `await webhook.send(...)` returns (or raises): lines 1100-1108
TaskSent(t, ok) ==
    /\ t \in DOMAIN tasks
    /\ tasks[t].pc = "send"
    /\ tasks' = TaskDone(t, IF ok THEN "" ELSE "send failed")
    /\ UNCHANGED <<clockVars, authVars, threads, cacheVars, webhooks_cache,
                   platform, createRequests>>
    /\ NoAnswer

----------------------------------------------------------------------------
(* The inbound path: on_message, get_avatar_base64, get_messages *)

NoAvatar == <<>>                     \* avatar_base64: None
Avatar   == <<"b64">>                \* base64.b64encode(img_data).decode('utf-8')

\* msg_data, lines 478-492: the fields that tell records apart
MsgData(id, c, avatar_b64) ==
    [id |-> id, channel_id |-> c, avatar_base64 |-> avatar_b64]

\* lines 468-469 on the cache dict
WithDeque(cache, c) ==
    IF c \in DOMAIN cache THEN cache
    ELSE [k \in DOMAIN cache \cup {c} |-> IF k = c THEN <<>> ELSE cache[k]]

\* line 494: message_cache[channel_id].append(msg_data)
CacheAppend(cache, c, m) ==
    [cache EXCEPT ![c] = DequeAppend(@, m, MAX_CACHED_MESSAGES)]

\* the value get_avatar_base64 returns once the fetch has an outcome:
\* the encoded body on status 200, None on any other status or an exception
AvatarResult(fetch) == IF fetch = "200" THEN Avatar ELSE NoAvatar
Fetches == {"200", "404", "raise"}

\* an on_message without the test of line 461: bot authors are cached too
OnMessage_cachesBots(c, authorBot, hasAvatar) ==
    /\ nextMsg <= MaxMsgs
    /\ nextMsg' = nextMsg + 1
    /\ last_message_time' = <<now>>
    /\ IF hasAvatar
         THEN /\ message_cache' = WithDeque(message_cache, c)
              /\ handlers' = handlers \cup {[id |-> nextMsg, channel_id |-> c]}
              /\ UNCHANGED appended
         ELSE /\ message_cache' =
                  CacheAppend(WithDeque(message_cache, c), c,
                              MsgData(nextMsg, c, NoAvatar))
              /\ appended' = [appended EXCEPT
                                ![c] = Append(@, MsgData(nextMsg, c, NoAvatar))]
              /\ UNCHANGED handlers
    /\ UNCHANGED <<clockVars, authVars, threads, sinkVars>>
    /\ NoAnswer

\* A message event is delivered and on_message runs to its first suspension:
\* to the end for a bot author (line 462) and for an author without avatar
\* (get_avatar_base64 returns None without awaiting), else to the fetch.
OnMessage(c, authorBot, hasAvatar) ==
    /\ nextMsg <= MaxMsgs
    /\ nextMsg' = nextMsg + 1
    /\ IF authorBot
         THEN UNCHANGED <<message_cache, handlers, appended, last_message_time>>
         ELSE /\ last_message_time' = <<now>>
              /\ IF hasAvatar
                   THEN /\ message_cache' = WithDeque(message_cache, c)
                        /\ handlers' = handlers \cup {[id |-> nextMsg, channel_id |-> c]}
                        /\ UNCHANGED appended
                   ELSE /\ message_cache' =
                            CacheAppend(WithDeque(message_cache, c), c,
                                        MsgData(nextMsg, c, NoAvatar))
                        /\ appended' = [appended EXCEPT
                                          ![c] = Append(@, MsgData(nextMsg, c, NoAvatar))]
                        /\ UNCHANGED handlers
    /\ UNCHANGED <<clockVars, authVars, threads, sinkVars>>
    /\ NoAnswer

\* an avatar fetch whose exception is not caught: on_message ends there
OnAvatarFetched_abortsOnFailure(h, fetch) ==
    /\ h \in handlers
    /\ LET m == MsgData(h.id, h.channel_id, AvatarResult(fetch)) IN
         IF fetch = "raise"
           THEN UNCHANGED <<message_cache, appended>>
           ELSE /\ message_cache' = CacheAppend(message_cache, h.channel_id, m)
                /\ appended' = [appended EXCEPT ![h.channel_id] = Append(@, m)]
    /\ handlers' = handlers \ {h}
    /\ UNCHANGED <<nextMsg, last_message_time>>
    /\ UNCHANGED <<clockVars, authVars, threads, sinkVars>>
    /\ NoAnswer

\* The avatar fetch of a suspended on_message has its outcome: lines 471-494
OnAvatarFetched(h, fetch) ==
    /\ h \in handlers
    /\ LET m == MsgData(h.id, h.channel_id, AvatarResult(fetch)) IN
         /\ message_cache' = CacheAppend(message_cache, h.channel_id, m)
         /\ appended' = [appended EXCEPT ![h.channel_id] = Append(@, m)]
    /\ handlers' = handlers \ {h}
    /\ UNCHANGED <<nextMsg, last_message_time>>
    /\ UNCHANGED <<clockVars, authVars, threads, sinkVars>>
    /\ NoAnswer

ReadChannels == Channels \cup {NoChannel}
Limits == {-1, 0, 1, DEFAULT_LIMIT, MAX_CACHED_MESSAGES, MAX_CACHED_MESSAGES + 1}

\* get_messages without the membership test of line 1059: the lookup of an
\* unknown conversation raises KeyError and Flask answers 500
get_messages_result_keyError(channel_id, limit) ==
    LET capped == Min(limit, 50) IN
    IF channel_id \notin DOMAIN message_cache
      THEN [status |-> 500, messages |-> <<>>]
      ELSE [status |-> 200,
            messages |-> PySliceFrom(message_cache[channel_id], -capped)]

\* get_messages, lines 1056-1063: the status and the 'messages' of the answer
get_messages_result(channel_id, limit) ==
    LET capped == Min(limit, 50) IN
    IF channel_id \notin DOMAIN message_cache
      THEN [status |-> 200, messages |-> <<>>]
      ELSE [status |-> 200,
            messages |-> PySliceFrom(message_cache[channel_id], -capped)]

\* get_messages, lines 1052-1054
StartGetMessages(i, auth) ==
    /\ StartProtected(i, "get_messages", auth)
    /\ UNCHANGED <<clockVars, authVars, cacheVars, sinkVars>>

\* get_messages, lines 1056-1063.  The answer is recorded with what the
\* conversation held when it was read: whether it had a deque, how many
\* messages the deque held, and how many had been appended in all.
ReadMessages(i, channel_id, limit) ==
    /\ threads[i].pc = "body"
    /\ threads[i].op = "get_messages"
    /\ LET r == get_messages_result(channel_id, limit)
           known == channel_id \in DOMAIN message_cache
       IN  Respond(i, "get_messages", r.status, "",
                   [channel_id |-> channel_id, limit |-> limit,
                    messages |-> r.messages, known |-> known,
                    size  |-> IF known THEN Len(message_cache[channel_id]) ELSE 0,
                    total |-> IF channel_id \in Channels
                                THEN Len(appended[channel_id]) ELSE 0])
    /\ UNCHANGED <<clockVars, authVars, cacheVars, sinkVars>>

----------------------------------------------------------------------------
(* Initial states *)

\* One verified user whose session was created at time 0.
OneUser    == {[id |-> 1, email |-> "e1", username |-> "u1",
                password_hash |-> hash_password("p1"), created_at |-> 0,
                verified |-> TRUE]}
OneSession == {[token |-> 1, username |-> "u1", expiry |-> SESSION_TTL,
                created_at |-> 0, last_used |-> 0]}

InitLoggedIn ==
    /\ now = 0
    /\ ticks = 0
    /\ users = OneUser
    /\ sessions = OneSession
    /\ verification_codes = {}
    /\ nextId = [verification |-> 1, user |-> 2]
    /\ nextToken = 2
    /\ verified = {}
    /\ resends = 0
    /\ threads = [i \in Threads |-> Idle]
    /\ response = NoResponse

InitCacheEmpty ==
    /\ message_cache = << >>
    /\ handlers = {}
    /\ nextMsg = 1
    /\ appended = [c \in Channels |-> <<>>]
    /\ last_message_time = <<>>

\* The cache after `fill` messages of authors without avatar were delivered
\* to channel c and processed, one after the other; their ids are the fill
\* ids up to 0, so that the ids of the run's own messages start at 1.
Prefilled(c, fill) == [k \in 1..fill |-> MsgData(k - fill, c, NoAvatar)]

InitCacheFilled(c, fill) ==
    /\ message_cache = [k \in {c} |-> Prefilled(c, fill)]
    /\ handlers = {}
    /\ nextMsg = 1
    /\ appended = [k \in Channels |-> IF k = c THEN Prefilled(c, fill) ELSE <<>>]
    /\ last_message_time = <<0>>

\* What the platform may hold for a channel when the process starts:
\* webhooks of other users, and possibly one of the bridge's from an
\* earlier run.
InitialWebhooks(c) ==
    {<<>>, <<Webhook(c, 0, "other")>>,
     <<Webhook(c, 0, "other"), Webhook(c, 0, BotUser)>>}

InitSinkEmpty(k) ==
    /\ webhooks_cache = << >>
    /\ platform = [c \in Channels |->
                     CHOOSE l \in InitialWebhooks(c) : Len(l) = k]
    /\ createRequests = [c \in Channels |-> 0]
    /\ tasks = <<>>

----------------------------------------------------------------------------
(* The outbound path as a specification *)

InitSink ==
    /\ InitLoggedIn
    /\ InitCacheEmpty
    /\ \E k \in {0, 1, 2} : InitSinkEmpty(k)

NextSink ==
    \/ \E i \in Threads, auth \in AuthInputs : StartSend(i, auth)
    \/ \E i \in Threads : AuthCheck(i)
    \/ \E i \in Threads, c \in SendChannels, hasContent \in BOOLEAN :
          SendBody(i, c, hasContent)
    \/ \E i \in Threads : SendReturn(i)
    \/ \E i \in Threads : SendTimeout(i)
    \/ \E t \in 1..MaxTasks : TaskStart(t)
    \/ \E t \in 1..MaxTasks, ok \in BOOLEAN : TaskListed(t, ok)
    \/ \E t \in 1..MaxTasks, ok \in BOOLEAN : TaskCreated(t, ok)
    \/ \E t \in 1..MaxTasks, ok \in BOOLEAN : TaskSent(t, ok)
    \/ Tick(DISPATCH_TIMEOUT)

SpecSink == InitSink /\ [][NextSink]_vars

\* The same path with the timers of the waiting threads running.  Time
\* passes and a thread blocked in future.result is woken by the operating
\* system, whatever the event loop does: the timer of a wait and its two
\* exits are weakly fair, no step of the event loop is.
InitDispatch ==
    /\ InitLoggedIn
    /\ InitCacheEmpty
    /\ InitSinkEmpty(0)

NextDispatch ==
    \/ \E i \in Threads, auth \in AuthInputs : StartSend(i, auth)
    \/ \E i \in Threads : AuthCheck(i)
    \/ \E i \in Threads, c \in {"c1", NoChannel}, hasContent \in BOOLEAN :
          SendBody(i, c, hasContent)
    \/ \E i \in Threads : SendReturn(i)
    \/ \E i \in Threads : SendTimeout(i)
    \/ \E i \in Threads : TimeoutElapses(i)
    \/ \E t \in 1..MaxTasks : TaskStart(t)
    \/ \E t \in 1..MaxTasks, ok \in BOOLEAN : TaskListed(t, ok)
    \/ \E t \in 1..MaxTasks, ok \in BOOLEAN : TaskCreated(t, ok)
    \/ \E t \in 1..MaxTasks, ok \in BOOLEAN : TaskSent(t, ok)

FairDispatch ==
    \A i \in Threads :
        /\ WF_vars(TimeoutElapses(i))
        /\ WF_vars(SendReturn(i) \/ SendTimeout(i))

SpecDispatch == InitDispatch /\ [][NextDispatch]_vars /\ FairDispatch

----------------------------------------------------------------------------
(* The inbound path as a specification *)

InitCache ==
    /\ InitLoggedIn
    /\ InitCacheEmpty \/ InitCacheFilled("c1", MAX_CACHED_MESSAGES - 1)
    /\ InitSinkEmpty(0)

NextCache ==
    \/ \E c \in Channels, authorBot \in BOOLEAN, hasAvatar \in BOOLEAN :
          OnMessage(c, authorBot, hasAvatar)
    \/ \E h \in handlers, fetch \in Fetches : OnAvatarFetched(h, fetch)
    \/ \E i \in Threads, auth \in AuthInputs : StartGetMessages(i, auth)
    \/ \E i \in Threads : AuthCheck(i)
    \/ \E i \in Threads, c \in ReadChannels, limit \in Limits :
          ReadMessages(i, c, limit)

SpecCache == InitCache /\ [][NextCache]_vars

\* The same path with the avatar fetches coming to an end: the fetch of
\* every suspended on_message returns or raises (aiohttp's default total
\* timeout bounds it) and the event loop resumes the handler.
FairInbound ==
    \A id \in 1..MaxMsgs, c \in Channels :
        WF_vars(\E fetch \in Fetches :
                   OnAvatarFetched([id |-> id, channel_id |-> c], fetch))

SpecInbound == InitCache /\ [][NextCache]_vars /\ FairInbound

----------------------------------------------------------------------------
(* The credential store as a specification *)

InitEmptyDb ==
    /\ now = 0
    /\ ticks = 0
    /\ users = {}
    /\ sessions = {}
    /\ verification_codes = {}
    /\ nextId = [verification |-> 1, user |-> 1]
    /\ nextToken = 1
    /\ verified = {}
    /\ resends = 0
    /\ threads = [i \in Threads |-> Idle]
    /\ response = NoResponse

\* the clock advances to the instant a time limit runs out, or just past it
VerifySteps  == {VERIFY_TTL, VERIFY_TTL + 1}
SessionSteps == {1, SESSION_TTL, SESSION_TTL + 1}

\* Registration: register, verify and resend requests on an empty database.
InitRegister == InitEmptyDb /\ InitCacheEmpty /\ InitSinkEmpty(0)

NextRegister ==
    \/ \E i \in Threads, e \in Emails, u \in Usernames, wellFormed \in BOOLEAN,
          code \in Codes : StartRegister(i, e, u, "p1", wellFormed, code)
    \/ \E i \in Threads : RegisterDelete(i)
    \/ \E i \in Threads, sent \in BOOLEAN : RegisterInsert(i, sent)
    \/ \E i \in Threads, e \in Emails, code \in Codes, wellFormed \in BOOLEAN :
          StartVerify(i, e, code, wellFormed)
    \/ \E i \in Threads : VerifyCheck(i)
    \/ \E i \in Threads : VerifyDelete(i)
    \/ \E i \in Threads : VerifySession(i)
    \/ \E i \in Threads, e \in Emails, code \in Codes : StartResend(i, e, code)
    \/ \E i \in Threads, sent \in BOOLEAN : ResendUpdate(i, sent)
    \/ \E d \in VerifySteps : Tick(d)

SpecRegister == InitRegister /\ [][NextRegister]_vars

\* Sessions: login, logout and an authenticated read-only request, with one
\* verified user in the database and no session yet.
InitSession ==
    /\ now = 0
    /\ ticks = 0
    /\ users = OneUser
    /\ sessions = {}
    /\ verification_codes = {}
    /\ nextId = [verification |-> 1, user |-> 2]
    /\ nextToken = 1
    /\ verified = {}
    /\ resends = 0
    /\ threads = [i \in Threads |-> Idle]
    /\ response = NoResponse
    /\ InitCacheEmpty
    /\ InitSinkEmpty(0)

NextSession ==
    \/ \E i \in Threads, name \in {"u1", "e1", "u2"}, p \in Passwords,
          wellFormed \in BOOLEAN : StartLogin(i, name, p, wellFormed)
    \/ \E i \in Threads : LoginSession(i)
    \/ \E i \in Threads, auth \in AuthInputs : StartLogout(i, auth)
    \/ \E i \in Threads, auth \in AuthInputs : StartStatus(i, auth)
    \/ \E i \in Threads, code \in Codes : StartStatusWithCode(i, code)
    \/ \E i \in Threads : AuthCheck(i)
    \/ \E i \in Threads : LogoutBody(i)
    \/ \E i \in Threads : StatusBody(i)
    \/ \E d \in SessionSteps : Tick(d)

SpecSession == InitSession /\ [][NextSession]_vars

----------------------------------------------------------------------------
(* The protected operations together, up to the expiry of the session *)

InitProtected ==
    /\ InitLoggedIn
    /\ InitCacheFilled("c1", 1)
    /\ InitSinkEmpty(0)

NextProtected ==
    \/ \E i \in Threads, auth \in AuthInputs : StartSend(i, auth)
    \/ \E i \in Threads, auth \in AuthInputs : StartGetMessages(i, auth)
    \/ \E i \in Threads, auth \in AuthInputs : StartGuilds(i, auth)
    \/ \E i \in Threads, auth \in AuthInputs : StartChannels(i, auth)
    \/ \E i \in Threads, auth \in AuthInputs : StartLogout(i, auth)
    \/ \E i \in Threads : AuthCheck(i)
    \/ \E i \in Threads : SendBody(i, "c1", TRUE)
    \/ \E i \in Threads : SendReturn(i)
    \/ \E i \in Threads : ReadMessages(i, "c1", DEFAULT_LIMIT)
    \/ \E i \in Threads : GuildsBody(i)
    \/ \E i \in Threads, found \in BOOLEAN : ChannelsBody(i, found)
    \/ \E i \in Threads : LogoutBody(i)
    \/ \E t \in 1..MaxTasks : TaskStart(t)
    \/ \E t \in 1..MaxTasks : TaskListed(t, TRUE)
    \/ \E t \in 1..MaxTasks : TaskCreated(t, TRUE)
    \/ \E t \in 1..MaxTasks : TaskSent(t, TRUE)
    \/ Tick(SESSION_TTL + 1)

SpecProtected == InitProtected /\ [][NextProtected]_vars

----------------------------------------------------------------------------
(* Claims *)

\* C1: for every conversation, concurrent first-time resolutions of its sink
\* issue one creation request to the platform, never a second one.
C1_OneCreationRequest ==
    \A c \in Channels : createRequests[c] <= 1

\* C2: every resolve call for a conversation returns the same handle, and the
\* handle webhooks_cache holds for a conversation is never replaced by a
\* different one: each handle a task obtained is the one the cache holds.
C2_SameHandle ==
    \A t \in DOMAIN tasks :
        tasks[t].webhook # <<>> =>
            /\ Cached(tasks[t].channel)
            /\ webhooks_cache[tasks[t].channel] = tasks[t].webhook[1]

\* the last k elements of the first n elements of seq
LastOf(seq, n, k) == SubSeq(seq, n - k + 1, n)

\* the answer of a get_messages request that passed authentication
Read == response.op = "get_messages" /\ response.status # 401

\* C3: in every reachable state every conversation's deque holds at most
\* MAX_CACHED_MESSAGES (50) messages.
C3_AtMostFifty ==
    \A c \in DOMAIN message_cache : Len(message_cache[c]) <= MAX_CACHED_MESSAGES

\* C3 witness: a conversation at capacity after more than 50 appends.
C3_Witness ==
    \E c \in DOMAIN message_cache :
        /\ Len(message_cache[c]) = MAX_CACHED_MESSAGES
        /\ Len(appended[c]) > MAX_CACHED_MESSAGES

\* C4: once more than 50 messages were appended to a conversation, its deque
\* is exactly the last 50 appended, in append order (each append at capacity
\* evicted the single oldest entry), and a read with a limit of 50 or more
\* returns exactly those.
C4_LastFifty ==
    /\ \A c \in DOMAIN message_cache :
          Len(appended[c]) > MAX_CACHED_MESSAGES =>
            message_cache[c] = LastOf(appended[c], Len(appended[c]), MAX_CACHED_MESSAGES)
    /\ (Read /\ response.extra.limit >= MAX_CACHED_MESSAGES
              /\ response.extra.total > MAX_CACHED_MESSAGES) =>
          response.extra.messages =
            LastOf(appended[response.extra.channel_id], response.extra.total,
                   MAX_CACHED_MESSAGES)

\* C4 witness: a read with limit >= 50 answered after more than 50 appends.
C4_Witness ==
    /\ Read
    /\ response.extra.limit >= MAX_CACHED_MESSAGES
    /\ response.extra.total > MAX_CACHED_MESSAGES
    /\ Len(response.extra.messages) = MAX_CACHED_MESSAGES
    /\ response.extra.messages[1] # appended[response.extra.channel_id][1]

\* C5: a read of a known conversation holding size messages with a limit
\* n >= 0 (n = 0 included) returns exactly the most recent min(n, size, 50)
\* messages, oldest first.
C5_ReadLast ==
    (Read /\ response.extra.known /\ response.extra.limit >= 0) =>
        response.extra.messages =
          LastOf(appended[response.extra.channel_id], response.extra.total,
                 Min(Min(response.extra.limit, response.extra.size),
                     MAX_CACHED_MESSAGES))

\* C6: an authenticated read of a conversation that never received a message
\* is answered 200 with an empty message list, and the read leaves
\* message_cache as it was.
NeverReceived(c) == c \notin DOMAIN message_cache \/ message_cache[c] = <<>>

C6_UnknownReadsEmpty ==
    [][\A i \in Threads :
        (/\ threads[i].pc = "body" /\ threads[i].op = "get_messages"
         /\ threads'[i].pc = "idle"
         /\ NeverReceived(response'.extra.channel_id)) =>
            /\ response'.status = 200
            /\ response'.error = ""
            /\ response'.extra.messages = <<>>
            /\ message_cache' = message_cache]_vars

\* C6 witness: such a read was answered while another conversation holds
\* messages.
C6_Witness ==
    /\ Read
    /\ ~response.extra.known
    /\ response.extra.messages = <<>>
    /\ response.extra.channel_id \notin DOMAIN message_cache
    /\ \E c \in DOMAIN message_cache : message_cache[c] # <<>>

\* C7: verify_user_token accepts the session it found at every time
\* t <= expiry (t = expiry included) and rejects it, with 401, at every
\* time t > expiry.
C7_AcceptedUntilExpiry ==
    [][\A i \in Threads :
        (threads[i].pc = "auth" /\ threads'[i] # threads[i]) =>
            /\ now <= threads[i].session.expiry => threads'[i].pc = "body"
            /\ now > threads[i].session.expiry =>
                  /\ threads'[i].pc = "idle"
                  /\ response'.status = 401
                  /\ response'.error = "Unauthorized"]_vars

\* C7 witness: a session that was accepted at the very instant of its expiry.
C7_Witness ==
    \E s \in sessions : s.last_used = s.expiry /\ now = s.expiry

\* C8: a successful authentication changes only the last_used field of the
\* session of the token; every other session stays as it is, and every
\* session's expiry stays its creation time plus 24 hours.
C8_AccessTouchesOnlyLastUsed ==
    [][/\ \A i \in Threads :
            (threads[i].pc = "auth" /\ threads'[i].pc = "body") =>
                /\ \A s \in sessions :
                      IF s.token = threads[i].token
                        THEN [s EXCEPT !.last_used = now] \in sessions'
                        ELSE s \in sessions'
                /\ Cardinality(sessions') = Cardinality(sessions)
       /\ \A s \in sessions' : s.expiry = s.created_at + SESSION_TTL]_vars

\* C8 witness: a session accessed after its creation, beside another session.
C8_Witness ==
    \E s, o \in sessions :
        /\ s.token # o.token
        /\ s.last_used > s.created_at
        /\ s.expiry = s.created_at + SESSION_TTL

\* C9: once a verify(email, code) has succeeded, a later verify with the same
\* (email, code) is answered 401 at once: it finds no pending verification,
\* so it goes on to create neither a user nor a session.
C9_SingleUse ==
    /\ \A i \in Threads : threads[i].op = "verify" => ~threads[i].late
    /\ (response.op = "verify" /\ response.extra.late) => response.status = 401

\* C10: in every reachable state there is at most one pending verification
\* per email, whatever the interleaving of register requests.
C10_OnePendingPerEmail ==
    \A e \in Emails :
        Cardinality({v \in verification_codes : v.email = e}) <= 1

\* C11: a send request whose task is not complete when its 10 seconds have
\* run out is answered 500, not before the 10 seconds are over, and every
\* send request that waits for its task eventually returns to its caller,
\* whether or not the event loop ever finishes the task.
C11_TimeoutReleases ==
    /\ [][\A i \in Threads :
            (/\ threads[i].pc = "wait" /\ threads'[i].pc = "idle"
             /\ tasks[threads[i].task].pc # "done") =>
                /\ now >= threads[i].deadline
                /\ threads[i].deadline >= DISPATCH_TIMEOUT
                /\ response'.op = "send_message"
                /\ response'.status = 500]_vars
    /\ \A i \in Threads : (threads[i].pc = "wait") ~> (threads[i].pc = "idle")

\* C11 witness: a timeout answered while the task had not even started.
C11_Witness ==
    /\ response.op = "send_message"
    /\ response.status = 500
    /\ tasks[response.extra[1]].pc = "queued"
    /\ now >= DISPATCH_TIMEOUT

\* C12: the timeout leaves the task as it is on the event loop (it is not
\* cancelled), no thread waits for a task whose caller timed out, and the
\* result of such a task is in no response.
C12_TimeoutKeepsTask ==
    /\ [][\A i \in Threads :
            (/\ threads[i].pc = "wait" /\ threads'[i].pc = "idle"
             /\ response'.status = 500) =>
                LET t == threads[i].task IN
                  /\ DOMAIN tasks' = DOMAIN tasks
                  /\ tasks'[t].pc = tasks[t].pc
                  /\ tasks'[t].error = tasks[t].error
                  /\ tasks'[t].webhook = tasks[t].webhook
                  /\ tasks'[t].caller = "timeout"
                  /\ \A u \in DOMAIN tasks \ {t} : tasks'[u] = tasks[u]]_vars
    /\ [](\A t \in DOMAIN tasks : tasks[t].caller = "timeout" =>
            /\ \A i \in Threads :
                  threads[i].pc = "wait" => threads[i].task # t
            /\ (response.op = "send_message" /\ response.status = 200) =>
                  response.extra[1] # t)

\* C12 witness: a task whose caller timed out has delivered its message.
C12_Witness ==
    \E t \in DOMAIN tasks :
        /\ tasks[t].caller = "timeout"
        /\ tasks[t].pc = "done"
        /\ tasks[t].error = ""

\* C13: a protected request that carries no bearer token but the quick code
\* of a user is authenticated as that user: it is not answered 401.
C13_QuickCodeAuthenticates ==
    (/\ response.op = "discord_status"
     /\ Len(response.extra) = 1
     /\ \E u \in users : QuickCode(u) = response.extra[1]) =>
        response.status # 401

\* the operations behind verify_user_token
ProtectedOps ==
    {"send_message", "get_messages", "get_guilds", "get_channels", "logout"}

\* C14: a protected request goes past verify_user_token only with the token
\* of an existing session that has not expired; every other one is answered
\* 401 'Unauthorized' by a step that schedules no task, resolves or creates
\* no sink and returns nothing of the message cache.
C14_Unauthorized ==
    [][/\ \A i \in Threads :
            /\ (threads[i].pc = "idle" /\ threads'[i].pc # "idle") =>
                  /\ threads'[i].pc = "auth"
                  /\ threads'[i].token # NoAuth
                  /\ threads'[i].session \in sessions
                  /\ threads'[i].session.token = threads'[i].token
            /\ (threads[i].pc = "auth" /\ threads'[i].pc # "auth") =>
                  IF now <= threads[i].session.expiry
                    THEN threads'[i].pc = "body"
                    ELSE threads'[i].pc = "idle" /\ response'.status = 401
       /\ response'.status = 401 =>
            /\ response'.op \in ProtectedOps
            /\ response'.error = "Unauthorized"
            /\ response'.extra = <<>>
            /\ UNCHANGED <<tasks, webhooks_cache, platform, createRequests,
                           message_cache>>
       /\ (threads' = threads /\ response' # NoResponse) =>
            response'.status = 401]_vars

\* C14 witness: a send is refused after the session's expiry, the session
\* gone, while the task of an earlier send is on the loop.
C14_Witness ==
    /\ response.op = "send_message"
    /\ response.status = 401
    /\ Len(tasks) = 1
    /\ now > SESSION_TTL
    /\ sessions = {}

\* C15: a register request goes on to store a pending verification only
\* when neither its email nor its username belongs to a user; otherwise it
\* is rejected, and a rejected register leaves the pending verifications
\* and the users as they were.
C15_RegisterRejectsTaken ==
    [][/\ \A i \in Threads :
            (threads[i].pc = "idle" /\ threads'[i].pc = "reg_delete") =>
                \A u \in users : /\ u.email # threads'[i].email
                                 /\ u.username # threads'[i].username
       /\ (response'.op = "register" /\ response'.status = 400) =>
            /\ threads' = threads
            /\ verification_codes' = verification_codes
            /\ users' = users]_vars

\* C15 witness: a register was rejected because a user holds the email or
\* the username.
C15_Witness ==
    /\ response.op = "register"
    /\ response.status = 400
    /\ response.error = "Email or username already exists"
    /\ users # {}

\* C16: a user is created only by a verify that found the pending
\* verification of its (email, code) and checks it at a time not after
\* expires_at, which is 15 minutes after the record was written; a verify
\* that checks it after expires_at is answered 401, removes the record and
\* creates neither a user nor a session.
C16_PromotedBeforeExpiry ==
    [][/\ \A i \in Threads :
            (threads[i].pc = "ver_check" /\ threads'[i] # threads[i]) =>
                LET v == threads[i].verification IN
                IF now > v.expires_at
                  THEN /\ threads'[i].pc = "idle"
                       /\ response'.status = 401
                       /\ \A w \in verification_codes' : w.id # v.id
                       /\ users' = users
                       /\ sessions' = sessions
                  ELSE /\ threads'[i].pc = "ver_delete"
                       /\ \E u \in users' \ users :
                             u.email = v.email /\ u.username = v.username
       /\ users' # users =>
            \E i \in Threads :
                /\ threads[i].pc = "ver_check"
                /\ threads[i].verification.email = threads[i].email
                /\ threads[i].verification.code = threads[i].code
                /\ now <= threads[i].verification.expires_at
       /\ \A v \in verification_codes' :
            v.expires_at = v.created_at + VERIFY_TTL]_vars

\* C16 witness: a verify was refused as expired, nothing pending is left
\* and no user exists.
C16_Witness ==
    /\ response.op = "verify"
    /\ response.status = 401
    /\ response.error = "Verification code expired"
    /\ now > VERIFY_TTL
    /\ verification_codes = {}
    /\ users = {}

\* C17: a login with a name no user has and a login with a user's name and
\* a wrong password are answered alike, 401 'Invalid credentials' with
\* nothing else in the body, and change nothing: no session is created.
C17_LoginFailuresAlike ==
    [][\A i \in Threads, name \in {"u1", "e1", "u2"}, p \in Passwords :
        (/\ StartLogin(i, name, p, TRUE)
         /\ \A u \in users :
               (u.username = name \/ u.email = name) =>
                  u.password_hash # hash_password(p)) =>
            /\ response' = [op |-> "login", status |-> 401,
                            error |-> "Invalid credentials", extra |-> <<>>]
            /\ threads' = threads
            /\ sessions' = sessions
            /\ nextToken' = nextToken]_vars

\* C17 witness: a login was refused while a user exists.
C17_Witness ==
    /\ response.op = "login"
    /\ response.status = 401
    /\ users # {}
    /\ sessions # {}

\* C18: a successful logout leaves no session of its token, a token whose
\* session is gone never has a session again, and a request that arrives
\* with such a token is answered 401.
C18_LoggedOutRejected ==
    [][/\ \A i \in Threads :
            (threads[i].pc = "body" /\ threads[i].op = "logout"
             /\ threads'[i].pc = "idle") =>
                /\ response'.status = 200
                /\ \A s \in sessions' : s.token # threads[i].token
       /\ \A tok \in 1..MaxTokens :
            (tok < nextToken /\ \A s \in sessions : s.token # tok) =>
                /\ \A s \in sessions' : s.token # tok
                /\ \A i \in Threads :
                      (StartStatus(i, tok) \/ StartLogout(i, tok)) =>
                          /\ response'.status = 401
                          /\ threads' = threads]_vars

\* C18 witness: a request is refused when the only session ever created is
\* gone before its expiry.
C18_Witness ==
    /\ response.status = 401
    /\ response.extra = <<>>
    /\ nextToken = 2
    /\ sessions = {}
    /\ now < SESSION_TTL

\* C19: the rejection of a token presented after its session's expiry
\* removes the session's record from the store (so its last_used is not
\* set) and leaves every other session as it was.
C19_ExpiredDeleted ==
    [][\A i \in Threads :
        (/\ threads[i].pc = "auth" /\ threads'[i] # threads[i]
         /\ now > threads[i].session.expiry) =>
            /\ response'.status = 401
            /\ sessions' = {s \in sessions : s.token # threads[i].token}]_vars

\* C19 witness: an expired session was rejected and removed while a second
\* request still holds the copy it had found.
C19_Witness ==
    /\ response.status = 401
    /\ \E j \in Threads :
          /\ threads[j].pc = "auth"
          /\ now > threads[j].session.expiry
          /\ \A s \in sessions : s.token # threads[j].token

\* C20: a register whose email could not be delivered is answered 500 and
\* leaves its pending verification in the store, with its code, where a
\* verify or a resend for that email finds it.
C20_PendingSurvivesFailedEmail ==
    [][\A i \in Threads :
        (/\ threads[i].pc = "reg_insert" /\ threads'[i].pc = "idle"
         /\ response'.status = 500) =>
            \E v \in verification_codes' :
                /\ v.email = threads[i].email
                /\ v.code = threads[i].code
                /\ v.username = threads[i].username
                /\ v.expires_at = now + VERIFY_TTL]_vars

\* C20 witness: a register was answered with the failed delivery and the
\* record it has just written is in the store.
C20_Witness ==
    /\ response.op = "register"
    /\ response.status = 500
    /\ \E v \in verification_codes : v.created_at = now

\* C21: an authenticated send to a conversation bot.get_channel does not
\* know is answered with status 404, and no sink is resolved or created
\* for it.
C21_UnknownChannel404 ==
    /\ \A t \in DOMAIN tasks :
          tasks[t].channel \notin Channels => tasks[t].webhook = <<>>
    /\ (response.op = "send_message" /\ response.error = "Channel not found") =>
          response.status = 404

\* the errors a send task returns when the platform denied the listing or
\* the creation of the webhook
SinkErrors == {"webhooks failed", "create_webhook failed"}

\* C22: a send whose sink lookup or creation the platform denied is
\* answered with status 500.
C22_SinkUnavailable500 ==
    (response.op = "send_message" /\ response.error \in SinkErrors) =>
        response.status = 500

\* C23: a failed listing or creation leaves webhooks_cache as it was, the
\* cache only ever holds webhooks of bot.user that the platform holds for
\* that conversation, and a resolve of a conversation without cache entry
\* asks the platform for its webhooks.
C23_FailureNotCached ==
    /\ [][\A t \in DOMAIN tasks :
            /\ (tasks[t].pc \in {"list", "create"} /\ tasks'[t].pc = "done") =>
                  /\ tasks'[t].error \in SinkErrors
                  /\ webhooks_cache' = webhooks_cache
            /\ (tasks[t].pc = "queued" /\ tasks'[t].pc # "queued"
                 /\ tasks[t].channel \in Channels
                 /\ tasks[t].channel \notin DOMAIN webhooks_cache) =>
                  tasks'[t].pc = "list"]_vars
    /\ [](\A c \in DOMAIN webhooks_cache :
            /\ webhooks_cache[c].user = BotUser
            /\ \E k \in DOMAIN platform[c] : platform[c][k] = webhooks_cache[c])

\* C23 witness: after a failed creation for a conversation the cache has no
\* entry for it and the next send task is listing its webhooks.
C23_Witness ==
    \E t, u \in DOMAIN tasks :
        /\ t < u
        /\ tasks[t].channel = tasks[u].channel
        /\ tasks[t].pc = "done"
        /\ tasks[t].error = "create_webhook failed"
        /\ tasks[u].pc = "list"
        /\ tasks[t].channel \notin DOMAIN webhooks_cache

\* C27: when the listing of an uncached conversation holds a webhook owned
\* by bot.user, the resolve takes the first such webhook, caches it and
\* issues no creation request; a creation request is issued only after a
\* listing that held none.
C27_OwnedHandleReused ==
    [][/\ \A t \in DOMAIN tasks :
            (tasks[t].pc = "list" /\ tasks'[t].pc \in {"send", "create"}) =>
                LET c == tasks[t].channel
                    owned == {k \in DOMAIN platform[c] : platform[c][k].user = BotUser}
                IN  IF owned # {}
                      THEN /\ tasks'[t].pc = "send"
                           /\ tasks'[t].webhook[1].user = BotUser
                           /\ \A k \in owned :
                                 tasks'[t].webhook[1] = platform[c][k] \/
                                 \E j \in owned : j < k /\
                                    tasks'[t].webhook[1] = platform[c][j]
                           /\ webhooks_cache'[c] = tasks'[t].webhook[1]
                           /\ createRequests' = createRequests
                           /\ platform' = platform
                      ELSE /\ tasks'[t].pc = "create"
                           /\ createRequests'[c] = createRequests[c] + 1
       /\ \A c \in Channels :
            createRequests'[c] # createRequests[c] =>
                \A k \in DOMAIN platform[c] : platform[c][k].user # BotUser]_vars

\* C27 witness: a send task holds the webhook the bridge owned before the
\* process started, listed behind another user's, and nothing was created.
C27_Witness ==
    \E t \in DOMAIN tasks :
        /\ tasks[t].webhook = <<Webhook(tasks[t].channel, 0, BotUser)>>
        /\ Len(platform[tasks[t].channel]) = 2
        /\ createRequests[tasks[t].channel] = 0
        /\ tasks[t].channel \in DOMAIN webhooks_cache

\* C24: the messages of a conversation's deque are in the order their
\* events were delivered (message ids follow delivery order).
C24_ArrivalOrder ==
    \A c \in DOMAIN message_cache :
        \A j, k \in DOMAIN message_cache[c] :
            j < k => message_cache[c][j].id < message_cache[c][k].id

\* C25: the delivery of a message whose author is a bot (the bridge's own
\* user and the webhooks it posts through are) appends nothing to the
\* message cache, now or later: the cache, the append history and the
\* suspended handlers stay as they were.
C25_OwnMessagesIgnored ==
    [][\A c \in Channels, hasAvatar \in BOOLEAN :
        OnMessage(c, TRUE, hasAvatar) =>
            /\ message_cache' = message_cache
            /\ appended' = appended
            /\ handlers' = handlers]_vars

\* C25 witness: every event delivered so far had a bot author and nothing
\* was cached.
C25_Witness ==
    /\ nextMsg = MaxMsgs + 1
    /\ handlers = {}
    /\ DOMAIN message_cache = {}
    /\ \A c \in Channels : appended[c] = <<>>

C28_UniqueUsers ==
    \A u, w \in users :
        u # w => (u.username # w.username /\ u.email # w.email)

\* the pending verifications of an email in a state of the collection
PendingOf(codes, email) == {v \in codes : v.email = email}

\* C30: a resend that found a pending record leaves the email with as many
\* pending records as before, all of them carrying the new code and
\* expiring 15 minutes after the resend, so that no code issued before
\* still verifies; a resend goes on only when the email has a pending
\* record, and one answered 404 changes nothing.
C30_ResendReplaces ==
    [][/\ \A i \in Threads :
            /\ (threads[i].pc = "resend_update" /\ threads'[i].pc = "idle") =>
                  /\ Cardinality(PendingOf(verification_codes', threads[i].email))
                        = Cardinality(PendingOf(verification_codes, threads[i].email))
                  /\ \A v \in PendingOf(verification_codes', threads[i].email) :
                        /\ v.code = threads[i].code
                        /\ v.expires_at = now + VERIFY_TTL
            /\ (threads[i].pc = "idle" /\ threads'[i].pc = "resend_update") =>
                  PendingOf(verification_codes, threads'[i].email) # {}
       /\ (response'.op = "resend" /\ response'.status = 404) =>
            /\ verification_codes' = verification_codes
            /\ threads' = threads]_vars

\* C29: a logout removes the session of its token and nothing else: every
\* other session, the user's other sessions included, is in the store
\* afterwards exactly as it was before.
C29_LogoutRemovesOnlyItsSession ==
    [][\A i \in Threads :
        (/\ threads[i].pc = "body" /\ threads[i].op = "logout"
         /\ threads'[i].pc = "idle") =>
            /\ \A s \in sessions : s.token # threads[i].token => s \in sessions'
            /\ \A s \in sessions' : s \in sessions /\ s.token # threads[i].token]_vars

\* C29 witness: a logout was answered and another session of the same user
\* is still in the store.
C29_Witness ==
    /\ response.op = "logout"
    /\ response.status = 200
    /\ nextToken = 3
    /\ \E s \in sessions : s.username = "u1" /\ now <= s.expiry

====
